---- MODULE Spec2Model ----
(***************************************************************************)
(* Model of audio-text-transcriber/audio_transcriber.py: the "Transcribe   *)
(* Audio" button handler and split_audio_and_transcribe_local, the         *)
(* chunking / transcription / aggregation pipeline with its temporary      *)
(* files.  Text is a sequence of characters; the decoder, the exporter and *)
(* the Whisper model are external and answer nondeterministically (a       *)
(* value, or an exception).                                                *)
(***************************************************************************)
EXTENDS Integers, Sequences, FiniteSets

VARIABLES
    pc,                \* position of the script in the handler / function
    uploaded,          \* uploaded_file is not None
    primaryExists,     \* the primary temp file (line 147) is on disk
    total_length_ms,   \* len(audio), line 69
    num_chunks,        \* line 74 / 78
    i,                 \* loop variable of line 87
    segments,          \* the (start_ms, end_ms) pairs computed so far, lines 88-89
    disk,              \* indices of the chunk temp files that exist on disk
    temp_chunk_files,  \* the list of line 65
    fragments,         \* the chunk_text values returned so far, line 107
    full_transcription_text,   \* line 64 / 110
    displayed,         \* content of transcription_display_area, line 113
    statusChunk,       \* current_chunk_status_area: 0 = empty, n = "chunk n of .."
    progressNum,       \* my_bar: numerator of the ratio over num_chunks
    barShown,          \* my_bar is on screen
    raised,            \* kind of the exception raised, "none" if none
    failedAt,          \* index of the segment whose step raised, -1 if none
    result,            \* transcription_result / the function's return value
    notifications,     \* st.error / st.warning / st.success calls, in order
    finalArea          \* content of the "Final Transcription" text area

vars == <<pc, uploaded, primaryExists, total_length_ms, num_chunks, i, segments,
          disk, temp_chunk_files, fragments, full_transcription_text, displayed,
          statusChunk, progressNum, barShown, raised, failedAt, result,
          notifications, finalArea>>

----------------------------------------------------------------------------
(* Bounds of the model *)

MaxChunks == 3

MaxTextLen == 2

(* Program constants, lines 55-56 *)

CHUNK_LENGTH_MINUTES == 10

CHUNK_LENGTH_MS == CHUNK_LENGTH_MINUTES * 60 * 1000

----------------------------------------------------------------------------
(* Inputs *)

\* "a" stands for any non-whitespace character, " " for the whitespace that
\* str.strip removes and that line 110 appends.
Alphabet == {"a", " "}

IsSpace(c) == c = " "

Texts == UNION {[1..n -> Alphabet] : n \in 0..MaxTextLen}

\* Durations around every chunk boundary up to MaxChunks chunks: 0, 1 ms,
\* one ms over a boundary, half a chunk over, one ms short, and exact.
Durations ==
    {0} \cup {k * CHUNK_LENGTH_MS + d :
                 k \in 1..MaxChunks,
                 d \in {1 - CHUNK_LENGTH_MS, 0 - (CHUNK_LENGTH_MS \div 2), 0 - 1, 0}}

None == [isNone |-> TRUE, text |-> <<>>]

Str(t) == [isNone |-> FALSE, text |-> t]

\* Python truthiness of a str-or-None value, line 158
Truthy(r) == ~r.isNone /\ r.text # <<>>

----------------------------------------------------------------------------
(* Pure helpers *)

\* math.ceil(a / b) for a >= 0, b > 0 (line 74)
CeilDiv(a, b) == (a + b - 1) \div b

Min(a, b) == IF a <= b THEN a ELSE b

NumChunksFloorPlusOne(total) == total \div CHUNK_LENGTH_MS + 1

\* lines 73-79
NumChunks(total) ==
    IF total > CHUNK_LENGTH_MS THEN CeilDiv(total, CHUNK_LENGTH_MS) ELSE 1

\* line 88
StartMs(k) == k * CHUNK_LENGTH_MS

EndMsUnclipped(k, total) == (k + 1) * CHUNK_LENGTH_MS

\* line 89
EndMs(k, total) == Min((k + 1) * CHUNK_LENGTH_MS, total)

RECURSIVE LStrip(_)
LStrip(s) ==
    IF s # <<>> /\ IsSpace(Head(s)) THEN LStrip(Tail(s)) ELSE s

RECURSIVE RStrip(_)
RStrip(s) ==
    IF s # <<>> /\ IsSpace(s[Len(s)]) THEN RStrip(SubSeq(s, 1, Len(s) - 1)) ELSE s

\* str.strip(), line 123
Strip(s) == RStrip(LStrip(s))

AppendChunkTextNoSeparator(full, chunk_text) == full \o chunk_text

\* line 110: full_transcription_text += chunk_text + " "
AppendChunkText(full, chunk_text) == full \o chunk_text \o <<" ">>

RemoveNothing(files, d) == d

\* lines 130-132 and 136-138: os.remove of every listed file that exists
RemoveAll(files, d) == d \ {files[k] : k \in 1..Len(files)}

ProgressValueBefore(k) == k

\* line 102: the numerator of (i + 1) / num_chunks
ProgressValue(k) == k + 1

\* One st.error / st.warning / st.success call: its level, the exception its
\* message interpolates ("none" if none) and the integers it interpolates.
Notification(level, exc, args) == [level |-> level, exc |-> exc, args |-> args]

ErrorNotificationNoCause(e) == Notification("error", "none", <<>>)

\* line 126: f"Error during audio processing or transcription: {e}"
ErrorNotification(e) == Notification("error", e, <<>>)

ReturnPartial(full) == Str(Strip(full))

\* line 133
ExceptReturn(full) == None

----------------------------------------------------------------------------
(* State after the script has run down to the button, line 142 *)

Init ==
    /\ pc = "button"
    /\ uploaded \in BOOLEAN
    /\ primaryExists = FALSE
    /\ total_length_ms = 0
    /\ num_chunks = 0
    /\ i = 0
    /\ segments = <<>>
    /\ disk = {}
    /\ temp_chunk_files = <<>>
    /\ fragments = <<>>
    /\ full_transcription_text = <<>>
    /\ displayed = <<>>
    /\ statusChunk = 0
    /\ progressNum = 0
    /\ barShown = FALSE
    /\ raised = "none"
    /\ failedAt = 0 - 1
    /\ result = None
    /\ notifications = <<>>
    /\ finalArea = None

pipelineVars == <<total_length_ms, num_chunks, i, segments, disk, temp_chunk_files,
                  fragments, full_transcription_text, displayed, statusChunk,
                  progressNum, barShown>>

\* lines 143-144: the button is pressed with no file uploaded
NoFile ==
    /\ pc = "button"
    /\ ~uploaded
    /\ notifications' = Append(notifications, Notification("error", "no_file", <<>>))
    /\ pc' = "done"
    /\ UNCHANGED <<uploaded, primaryExists, raised, failedAt, result, finalArea>>
    /\ UNCHANGED pipelineVars

\* lines 147-151: the upload is written to the primary temp file, which
\* NamedTemporaryFile(delete=False) has created.  A failing write raises out of
\* the with block, before the try of line 152 is entered.
SavePrimary ==
    /\ pc = "button"
    /\ uploaded
    /\ primaryExists' = TRUE
    /\ \E ok \in BOOLEAN :
          IF ok
             THEN /\ pc' = "call"
                  /\ UNCHANGED raised
             ELSE /\ pc' = "crashed"
                  /\ raised' = "write"
    /\ result' = None
    /\ UNCHANGED <<uploaded, failedAt, notifications, finalArea>>
    /\ UNCHANGED pipelineVars

\* lines 64-85: decode, compute num_chunks, create the placeholders
Decode ==
    /\ pc = "call"
    /\ \E ok \in BOOLEAN :
          IF ok
             THEN \E d \in Durations :
                     /\ total_length_ms' = d
                     /\ num_chunks' = NumChunks(d)
                     /\ barShown' = TRUE
                     /\ pc' = "loop"
                     /\ UNCHANGED raised
             ELSE /\ raised' = "decode"
                  /\ pc' = "except"
                  /\ UNCHANGED <<total_length_ms, num_chunks, barShown>>
    /\ progressNum' = 0
    /\ UNCHANGED <<uploaded, primaryExists, i, segments, disk, temp_chunk_files,
                   fragments, full_transcription_text, displayed, statusChunk,
                   failedAt, result, notifications, finalArea>>

\* lines 87-97: slice segment i, create its temp file, export, register it.
\* The file exists from NamedTemporaryFile on; it is appended to
\* temp_chunk_files only after chunk.export has returned.
Export ==
    /\ pc = "loop"
    /\ i < num_chunks
    /\ segments' = Append(segments, <<StartMs(i), EndMs(i, total_length_ms)>>)
    /\ disk' = disk \cup {i}
    /\ \E ok \in BOOLEAN :
          IF ok
             THEN /\ temp_chunk_files' = Append(temp_chunk_files, i)
                  /\ pc' = "progress"
                  /\ UNCHANGED <<raised, failedAt>>
             ELSE /\ raised' = "export"
                  /\ failedAt' = i
                  /\ pc' = "except"
                  /\ UNCHANGED temp_chunk_files
    /\ UNCHANGED <<uploaded, primaryExists, total_length_ms, num_chunks, i,
                   fragments, full_transcription_text, displayed, statusChunk,
                   progressNum, barShown, result, notifications, finalArea>>

\* lines 99-103: status line and progress bar for the current chunk
UpdateProgress ==
    /\ pc = "progress"
    /\ statusChunk' = i + 1
    /\ progressNum' = ProgressValue(i)
    /\ pc' = "transcribe"
    /\ UNCHANGED <<uploaded, primaryExists, total_length_ms, num_chunks, i,
                   segments, disk, temp_chunk_files, fragments,
                   full_transcription_text, displayed, barShown, raised,
                   failedAt, result, notifications, finalArea>>

\* lines 105-119: transcribe the chunk, append its text, refresh the display
Transcribe ==
    /\ pc = "transcribe"
    /\ \E ok \in BOOLEAN :
          IF ok
             THEN \E chunk_text \in Texts :
                     /\ fragments' = Append(fragments, chunk_text)
                     /\ full_transcription_text' =
                            AppendChunkText(full_transcription_text, chunk_text)
                     /\ displayed' =
                            AppendChunkText(full_transcription_text, chunk_text)
                     /\ i' = i + 1
                     /\ pc' = "loop"
                     /\ UNCHANGED <<raised, failedAt>>
             ELSE /\ raised' = "inference"
                  /\ failedAt' = i
                  /\ pc' = "except"
                  /\ UNCHANGED <<fragments, full_transcription_text, displayed, i>>
    /\ UNCHANGED <<uploaded, primaryExists, total_length_ms, num_chunks,
                   segments, disk, temp_chunk_files, statusChunk, progressNum,
                   barShown, result, notifications, finalArea>>

\* lines 121-123: the loop is over; clear bar and status, return the text
ReturnText ==
    /\ pc = "loop"
    /\ i >= num_chunks
    /\ barShown' = FALSE
    /\ statusChunk' = 0
    /\ result' = Str(Strip(full_transcription_text))
    /\ pc' = "finally"
    /\ UNCHANGED <<uploaded, primaryExists, total_length_ms, num_chunks, i,
                   segments, disk, temp_chunk_files, fragments,
                   full_transcription_text, displayed, progressNum, raised,
                   failedAt, notifications, finalArea>>

\* lines 125-133: the except clause of the function
ExceptClause ==
    /\ pc = "except"
    /\ notifications' = notifications \o
                          <<ErrorNotification(raised),
                            Notification("warning", "none", <<>>)>>
    /\ disk' = RemoveAll(temp_chunk_files, disk)
    /\ result' = ExceptReturn(full_transcription_text)
    /\ pc' = "finally"
    /\ UNCHANGED <<uploaded, primaryExists, total_length_ms, num_chunks, i,
                   segments, temp_chunk_files, fragments,
                   full_transcription_text, displayed, statusChunk, progressNum,
                   barShown, raised, failedAt, finalArea>>

\* lines 134-138: the finally clause of the function
FinallyClause ==
    /\ pc = "finally"
    /\ disk' = RemoveAll(temp_chunk_files, disk)
    /\ pc' = "returned"
    /\ UNCHANGED <<uploaded, primaryExists, total_length_ms, num_chunks, i,
                   segments, temp_chunk_files, fragments,
                   full_transcription_text, displayed, statusChunk, progressNum,
                   barShown, raised, failedAt, result, notifications, finalArea>>

\* lines 158-164: the handler shows the result if it is truthy
ShowResult ==
    /\ pc = "returned"
    /\ IF Truthy(result)
          THEN /\ notifications' = Append(notifications, Notification("success", "none", <<>>))
               /\ finalArea' = result
          ELSE UNCHANGED <<notifications, finalArea>>
    /\ pc' = "handler_finally"
    /\ UNCHANGED <<uploaded, primaryExists, raised, failedAt, result>>
    /\ UNCHANGED pipelineVars

\* lines 170-173: the finally clause of the handler
RemovePrimary ==
    /\ pc = "handler_finally"
    /\ primaryExists' = FALSE
    /\ pc' = "done"
    /\ UNCHANGED <<uploaded, raised, failedAt, result, notifications, finalArea>>
    /\ UNCHANGED pipelineVars

Next ==
    \/ NoFile
    \/ SavePrimary
    \/ Decode
    \/ Export
    \/ UpdateProgress
    \/ Transcribe
    \/ ReturnText
    \/ ExceptClause
    \/ FinallyClause
    \/ ShowResult
    \/ RemovePrimary

Spec == Init /\ [][Next]_vars

----------------------------------------------------------------------------
(* Properties *)

Returned == pc \in {"returned", "handler_finally", "done"}

Exited == pc \in {"finally", "returned", "handler_finally", "done"}

InLoop == pc \in {"loop", "progress", "transcribe"}

CountLevel(level) ==
    Cardinality({k \in 1..Len(notifications) : notifications[k].level = level})

\* The fragments joined with one space between consecutive fragments.
RECURSIVE JoinWithSpace(_)
JoinWithSpace(fs) ==
    IF fs = <<>> THEN <<>>
    ELSE IF Len(fs) = 1 THEN fs[1]
    ELSE fs[1] \o <<" ">> \o JoinWithSpace(Tail(fs))

\* r is s without its leading and trailing whitespace.
IsTrimOf(r, s) ==
    \E a \in 0..Len(s) : \E b \in 0..(Len(s) - a) :
        /\ r = SubSeq(s, a + 1, Len(s) - b)
        /\ \A k \in 1..a : IsSpace(s[k])
        /\ \A k \in (Len(s) - b + 1)..Len(s) : IsSpace(s[k])
        /\ r # <<>> => (~IsSpace(r[1]) /\ ~IsSpace(r[Len(r)]))

\* C1: the [start_ms, end_ms) ranges computed by the loop start at 0, each
\* starts where the previous one ends, none runs backwards or past the total
\* duration (so they are ordered and do not overlap), and once the loop has
\* computed all of them the last one ends at total_length_ms: their union is
\* exactly [0, total_length_ms).
C1_SegmentsPartitionInput ==
    /\ \A k \in 1..Len(segments) :
          /\ segments[k][1] <= segments[k][2]
          /\ segments[k][2] <= total_length_ms
          /\ segments[k][1] = (IF k = 1 THEN 0 ELSE segments[k - 1][2])
    /\ (num_chunks > 0 /\ i >= num_chunks) =>
          /\ Len(segments) = num_chunks
          /\ segments[Len(segments)][2] = total_length_ms

C1_Witness ==
    /\ pc = "done"
    /\ raised = "none"
    /\ total_length_ms = 1500000
    /\ segments = << <<0, 600000>>, <<600000, 1200000>>, <<1200000, 1500000>> >>

\* C2: there is exactly one segment when the duration is at most the chunk
\* length (the exact boundary included); otherwise the number of segments n
\* is the ceiling of duration / chunk length, (n-1)*chunk < duration <= n*chunk;
\* every segment but the last has the chunk length and the last ends at the
\* duration.
C2_SegmentCount ==
    num_chunks > 0 =>
        /\ total_length_ms <= CHUNK_LENGTH_MS => num_chunks = 1
        /\ total_length_ms > CHUNK_LENGTH_MS =>
              /\ (num_chunks - 1) * CHUNK_LENGTH_MS < total_length_ms
              /\ total_length_ms <= num_chunks * CHUNK_LENGTH_MS
        /\ Len(segments) <= num_chunks
        /\ \A k \in 1..Len(segments) :
              IF k < num_chunks
                 THEN segments[k][2] - segments[k][1] = CHUNK_LENGTH_MS
                 ELSE segments[k][2] = total_length_ms

C2_Witness ==
    /\ pc = "done"
    /\ raised = "none"
    /\ total_length_ms = CHUNK_LENGTH_MS
    /\ segments = << <<0, CHUNK_LENGTH_MS>> >>

\* C3 as stated: at most one chunk temp file exists on disk at any time (taken
\* here on the runs in which no step has failed, so that the file left behind
\* by a failed export plays no part).
C3_AtMostOneChunkFile == raised = "none" => Cardinality(disk) <= 1

\* C3 amended: chunk files are kept until the function exits.  While the loop
\* runs every file created so far is still on disk (they accumulate), and once
\* the function has returned every file registered in temp_chunk_files is gone.
C3_ChunkFilesKeptUntilExit ==
    /\ InLoop => disk = {k \in 0..MaxChunks : k < Len(segments)}
    /\ Returned =>
          \A k \in 1..Len(temp_chunk_files) : temp_chunk_files[k] \notin disk

C3_Witness ==
    /\ pc = "returned"
    /\ raised = "inference"
    /\ failedAt = 1
    /\ Len(temp_chunk_files) = 2
    /\ disk = {}

\* C4: once split_audio_and_transcribe_local has returned, on any exit path,
\* no chunk temp file created during the call exists.
C4_NoChunkFileAfterReturn == Returned => disk = {}

\* C5: if export or transcription of segment k fails, no later segment is
\* exported or transcribed, the function returns None, and the handler shows
\* neither a final transcript nor a success notification.
C5_FailFast ==
    failedAt >= 0 =>
        /\ i = failedAt
        /\ Len(segments) = failedAt + 1
        /\ Len(fragments) = failedAt
        /\ Exited => result = None
        /\ finalArea = None
        /\ CountLevel("success") = 0

C5_Witness ==
    /\ pc = "done"
    /\ raised = "inference"
    /\ failedAt = 1
    /\ num_chunks = 3
    /\ Len(fragments) = 1
    /\ fragments[1] = <<"a">>

\* C6: when every segment has been transcribed, the returned transcript is the
\* fragments in index order joined with single spaces, with leading and
\* trailing whitespace trimmed.
C6_TranscriptIsTrimmedJoin ==
    (Exited /\ raised = "none" /\ num_chunks > 0) =>
        /\ Len(fragments) = num_chunks
        /\ ~result.isNone
        /\ IsTrimOf(result.text, JoinWithSpace(fragments))

C6_Witness ==
    /\ pc = "done"
    /\ fragments = << <<" ", "a">>, <<>>, <<"a", " ">> >>
    /\ result = Str(<<"a", " ", " ", "a">>)

\* C7: when the handler has finished, however it ended, the primary temp file
\* no longer exists.
C7_PrimaryFileRemoved == (pc \in {"done", "crashed"}) => ~primaryExists

\* C8 as stated: the reported progress never exceeds the number of segments
\* already transcribed.
C8_ProgressAfterCompletion == progressNum <= Len(fragments)

\* C8 amended: the progress for segment i is reported before segment i is
\* transcribed.  While segment i is being transcribed the bar already reads
\* (i+1)/num_chunks with only i segments transcribed; the reported numerator
\* is never more than one ahead of, and never behind, the transcribed count.
C8_ProgressBeforeTranscription ==
    /\ pc = "transcribe" => (progressNum = i + 1 /\ Len(fragments) = i)
    /\ progressNum \in {Len(fragments), Len(fragments) + 1}

C8_Witness ==
    /\ pc = "transcribe"
    /\ num_chunks = 3
    /\ progressNum = num_chunks
    /\ Len(fragments) = 2

\* C9 as stated: after transcription of segment k has failed there is exactly
\* one error notification, and it names the failure and the index k.
C9_FailureNamesSegment ==
    (Exited /\ raised = "inference") =>
        /\ CountLevel("error") = 1
        /\ \E n \in 1..Len(notifications) :
              /\ notifications[n].level = "error"
              /\ notifications[n].exc = "inference"
              /\ \E a \in 1..Len(notifications[n].args) :
                    notifications[n].args[a] \in {failedAt, failedAt + 1}

\* C9 amended: after transcription of segment k has failed there is exactly
\* one error notification; it carries the exception and no segment index, a
\* warning follows it, and the index is visible only in the status line
\* "Transcribing chunk k+1 of n", which stays on screen.
C9_FailureWithoutSegment ==
    (Exited /\ raised = "inference") =>
        /\ CountLevel("error") = 1
        /\ CountLevel("success") = 0
        /\ notifications = <<Notification("error", "inference", <<>>),
                             Notification("warning", "none", <<>>)>>
        /\ statusChunk = failedAt + 1

C9_Witness ==
    /\ pc = "done"
    /\ raised = "inference"
    /\ failedAt = 1
    /\ num_chunks = 3
    /\ CountLevel("error") = 1

\* C10: a finished run with an uploaded file shows exactly one terminal
\* outcome: the success notification with the final transcript if no step
\* failed, an error notification otherwise.
C10_OneTerminalOutcome ==
    (pc = "done" /\ uploaded) =>
        IF raised = "none"
           THEN /\ CountLevel("success") = 1
                /\ CountLevel("error") = 0
                /\ finalArea = result
                /\ ~finalArea.isNone
           ELSE /\ CountLevel("error") = 1
                /\ CountLevel("success") = 0

====
